---- MODULE Spec2Model ----
(***************************************************************************)
(* EduCore academic records manager: the FastAPI backend                   *)
(* (src/backend/main.py, schemas.py, models.py).                           *)
(*                                                                         *)
(* Numeric grades and GWAs are fixed-point integers in thousandths         *)
(* (1.0 is 1000, 1.25 is 1250, 5.0 is 5000).  Python floats are doubles    *)
(* and the grade and gwa columns are single-precision FLOATs: round(x, 2)  *)
(* and AVG are computed on the binary values, which the model follows by   *)
(* the sign of the representation error wherever a decimal tie is at       *)
(* stake.                                                                  *)
(*                                                                         *)
(* Every handler is a sequence of steps, one per database round trip: the  *)
(* reads of one snapshot, then each write with its db.commit(), then each  *)
(* read that follows a commit.                                             *)
(*                                                                         *)
(* Spec      : one client, which sends a request when the one before has   *)
(*             been answered; resp is what that client receives.           *)
(* SpecConc  : the same steps for two requests in flight at once.          *)
(* SpecFlask : the Flask backend (src/app.py), two requests in flight,     *)
(*             one step per statement of its autocommit connection.        *)
(***************************************************************************)
EXTENDS Integers, Sequences, FiniteSets, TLC

VARIABLES courses, course_subjects, users, students, grades,
          nextStudentId, nextGradeId, resp, reqs

vars == <<courses, course_subjects, users, students, grades,
          nextStudentId, nextGradeId, resp, reqs>>

(* ---------------- bounds and input domains ---------------- *)

MaxStudentId == 2
MaxGradeId == 2

StudentCodes == {"24-001", "24-002"}
\* a course_code of 21 characters
LongCourseCode == "BSCS-EVENING-PROGRAM1"
\* a subject_code of 21 characters
LongSubjectCode == "CS101-LABORATORY-2026"

CourseInputs == {"BSCS", "NOPE", "", LongCourseCode}
SubjectOrder == <<"CS101", "MATH101">>
SubjectCodes == {SubjectOrder[i] : i \in 1..Len(SubjectOrder)}

\* request bodies of POST /api/students: <<student_code, name, course_code>>
StudentInputs ==
  {<<"24-001", "Ana", "BSIT">>, <<"24-001", "Ben", "NOPE">>,
   <<"24-002", "Ben", "BSIT">>, <<"24-002", "", "BSIT">>,
   <<"24-002", "Ben", LongCourseCode>>}

\* request bodies of POST /api/grades, less the student_code:
\* <<subject_code, subject_name, grade>>
GradeInputs ==
  {<<"CS101", "Programming", 1000>>,
   <<"CS101", "Computer Programming", 1251>>,
   <<"MATH101", "Calculus", 5000>>,
   <<"MATH101", "Calculus", 999>>, <<"MATH101", "Calculus", 5001>>,
   <<LongSubjectCode, "Programming", 1000>>, <<"CS101", "", 5000>>}

\* len(v) of the strings that appear in request bodies
StringLength(v) ==
  CASE v = "" -> 0
    [] v \in {"Ana", "Ben"} -> 3
    [] v \in {"BSIT", "BSCS", "BSBA", "NOPE"} -> 4
    [] v = "CS101" -> 5
    [] v \in {"24-001", "24-002"} -> 6
    [] v = "MATH101" -> 7
    [] v = "Calculus" -> 8
    [] v = "Programming" -> 11
    [] v = "Computer Programming" -> 20
    [] v \in {LongCourseCode, LongSubjectCode} -> 21

(* ---------------- program constants ---------------- *)

MinGrade == 1000
StringMinLength == 1
StudentCodeMaxLength == 20
StudentNameMaxLength == 100
CourseCodeMaxLength == 20
SubjectCodeMaxLength == 20
SubjectNameMaxLength == 200
MaxGrade == 5000
SeedCourses == {"BSIT", "BSCS", "BSBA"}

\* bsit_subjects + bscs_subjects + bsba_subjects, in the order of db.add_all
SeedCourseSubjects ==
  << <<"BSIT", "CS 131", "Computer Programming 1">>,
     <<"BSIT", "GEd 109", "Purposive Communication">>,
     <<"BSIT", "MATH 111", "Mathematics in the Modern World">>,
     <<"BSIT", "PE 101", "Physical Education 1">>,
     <<"BSIT", "NSTP 101", "National Service Training Program 1">>,
     <<"BSIT", "CS 132", "Computer Programming 2">>,
     <<"BSIT", "GEd 106", "Understanding the Self">>,
     <<"BSCS", "CS 101", "Introduction to Computing">>,
     <<"BSCS", "CS 102", "Fundamentals of Programming">>,
     <<"BSCS", "MATH 101", "Calculus 1">>,
     <<"BSCS", "PHYS 101", "Physics for Computer Science">>,
     <<"BSCS", "ENG 101", "Communication Skills">>,
     <<"BSCS", "CS 201", "Data Structures and Algorithms">>,
     <<"BSCS", "CS 202", "Object-Oriented Programming">>,
     <<"BSBA", "ACCT 101", "Fundamentals of Accounting">>,
     <<"BSBA", "ECON 101", "Microeconomics">>,
     <<"BSBA", "MGT 101", "Principles of Management">>,
     <<"BSBA", "MKT 101", "Principles of Marketing">>,
     <<"BSBA", "FIN 101", "Business Finance">> >>

(* ---------------- pure helpers ---------------- *)

Abs(x) == IF x < 0 THEN 0 - x ELSE x

\* nearest integer to num/den, an exact tie going to the even neighbour
RoundHalfEven(num, den) ==
  LET q == num \div den
      r == num % den
  IN  IF 2 * r < den THEN q
      ELSE IF 2 * r > den THEN q + 1
      ELSE IF q % 2 = 0 THEN q ELSE q + 1

\* the bits of the binary expansion of num/den, one per step, until `sig`
\* significant bits are out: r is the remainder, last the last bit, frac the
\* number of fractional bits so far.  The result is the rounding to nearest,
\* ties to even, at that bit: up = 1 when the value is rounded up, 0 when it
\* is exact or rounded down; rest is the remainder cut off; frac as counted.
RECURSIVE BinaryRound(_, _, _, _, _, _)
BinaryRound(r, den, sig, last, frac, bits) ==
  IF sig = bits \/ r = 0 THEN
    [up |-> IF 2 * r > den \/ (2 * r = den /\ last = 1) THEN 1 ELSE 0,
     rest |-> r, frac |-> frac]
  ELSE LET bit == IF 2 * r >= den THEN 1 ELSE 0
       IN  BinaryRound(2 * r - bit * den, den,
                       IF sig = 0 /\ bit = 0 THEN 0 ELSE sig + 1, bit, frac + 1, bits)

\* number of bits of a natural number below 2^31
RECURSIVE BitLength(_)
BitLength(q) == IF q = 0 THEN 0 ELSE 1 + BitLength(q \div 2)

DoubleBits == 53
FloatBits == 24

\* sign of (the IEEE double nearest to num/den) - num/den
DoubleErrSign(num, den) ==
  LET q == num \div den
      b == BinaryRound(num % den, den, BitLength(q), q % 2, 0, DoubleBits)
  IN  IF b.rest = 0 THEN 0 ELSE IF b.up = 1 THEN 1 ELSE 0 - 1

\* Python round(x, 2) of the double nearest to num/den (thousandths): round
\* rounds the binary value correctly, so a decimal tie x.xx5 goes where the
\* double lies, and to the even hundredth only when the double is exact
round2(num, den) ==
  LET q == num \div den
  IN  IF num % den = 0 /\ q % 10 = 5 THEN
        LET sgn == DoubleErrSign(num, 1000 * den)
        IN  IF sgn > 0 THEN q + 5
            ELSE IF sgn < 0 THEN q - 5
            ELSE 10 * RoundHalfEven(q, 10)
      ELSE 10 * RoundHalfEven(num, 10 * den)

\* (the value a FLOAT column stores for the grade g) - g, for g in [1.0, 8.0),
\* in units of 2^-23 / 1000
Float32Err(g) ==
  LET q == g \div 1000
      b == BinaryRound(g % 1000, 1000, BitLength(q), q % 2, 0, FloatBits)
      d == IF b.up = 1 THEN 1000 - b.rest ELSE 0 - b.rest
  IN  IF q >= 4 THEN 4 * d ELSE IF q >= 2 THEN 2 * d ELSE d

RECURSIVE SumGrades(_)
SumGrades(G) ==
  IF G = {} THEN 0
  ELSE LET g == CHOOSE x \in G : TRUE IN g.grade + SumGrades(G \ {g})

RECURSIVE SumFloat32Err(_)
SumFloat32Err(G) ==
  IF G = {} THEN 0
  ELSE LET g == CHOOSE x \in G : TRUE IN Float32Err(g.grade) + SumFloat32Err(G \ {g})

GradesOf(grs, code) == {g \in grs : g.student_code = code}

StudentsOf(studs, code) == {s \in studs : s.student_code = code}

GradeRows(grs, code, subj) ==
  {g \in grs : g.student_code = code /\ g.subject_code = subj}

\* the range test with the bounds excluded (gt/lt for ge/le)
GradeCreate_in_range_exclusive(v) == v > MinGrade /\ v < MaxGrade

\* schemas.GradeCreate: Field(ge=1.0, le=5.0) and the validator's range test
GradeCreate_in_range(v) == ~(v < MinGrade \/ v > MaxGrade)

\* schemas.GradeCreate.validate_grade: the value handed to the handler
validate_grade(v) == round2(v, 1)

\* Field(..., min_length=1, max_length=n) of a str field
Field_str(v, max_length) ==
  StringLength(v) >= StringMinLength /\ StringLength(v) <= max_length

\* the message of the constraint a str field breaks
Field_str_detail(v, max_length) ==
  IF StringLength(v) < StringMinLength THEN "String should have at least 1 character"
  ELSE IF max_length = SubjectNameMaxLength THEN "String should have at most 200 characters"
  ELSE IF max_length = StudentNameMaxLength THEN "String should have at most 100 characters"
  ELSE "String should have at most 20 characters"

\* schemas.GradeCreate: subject_code and subject_name within their lengths
\* (student_code has no constraint) and the grade within its range
GradeCreate_valid(subj, sname, v) ==
  /\ Field_str(subj, SubjectCodeMaxLength)
  /\ Field_str(sname, SubjectNameMaxLength)
  /\ GradeCreate_in_range(v)

\* the message of the 422, the first of its detail list: the fields are
\* validated in the order of their declaration, and the constraint of
\* Field(..., ge=1.0, le=5.0) is tested before validate_grade runs
GradeCreate_detail(subj, sname, v) ==
  IF ~Field_str(subj, SubjectCodeMaxLength) THEN Field_str_detail(subj, SubjectCodeMaxLength)
  ELSE IF ~Field_str(sname, SubjectNameMaxLength)
    THEN Field_str_detail(sname, SubjectNameMaxLength)
  ELSE IF v < MinGrade THEN "Input should be greater than or equal to 1"
  ELSE "Input should be less than or equal to 5"

\* the chain with the upper bound of Very Good excluded
get_grade_description_exclusive(grade) ==
  IF grade = 0 THEN "Not yet graded"
  ELSE IF grade = 1000 THEN "Excellent"
  ELSE IF grade < 1750 THEN "Very Good"
  ELSE IF grade <= 2500 THEN "Good"
  ELSE IF grade <= 3000 THEN "Satisfactory"
  ELSE "Failed"

get_grade_description(grade) ==
  IF grade = 0 THEN "Not yet graded"
  ELSE IF grade = 1000 THEN "Excellent"
  ELSE IF grade <= 1750 THEN "Very Good"
  ELSE IF grade <= 2500 THEN "Good"
  ELSE IF grade <= 3000 THEN "Satisfactory"
  ELSE "Failed"

\* src/models.py GradeSystem.get_description
GradeSystem_get_description(grade) ==
  IF grade = 0 THEN "Not yet graded"
  ELSE IF grade = 1000 THEN "Excellent"
  ELSE IF grade <= 1750 THEN "Very Good"
  ELSE IF grade <= 2500 THEN "Good"
  ELSE IF grade <= 3000 THEN "Satisfactory"
  ELSE "Failed"

\* src/frontend/gui.py EduCoreApp.get_grade_description
EduCoreApp_get_grade_description(grade) ==
  IF grade = 0 THEN "Not yet graded"
  ELSE IF grade = 1000 THEN "Excellent"
  ELSE IF grade <= 1750 THEN "Very Good"
  ELSE IF grade <= 2500 THEN "Good"
  ELSE IF grade <= 3000 THEN "Satisfactory"
  ELSE "Failed"

\* src/frontend/gui.py StudentPortalWindow.get_grade_description
StudentPortalWindow_get_grade_description(grade) ==
  IF grade = 0 THEN "Not yet graded"
  ELSE IF grade <= 1750 THEN "Excellent"
  ELSE IF grade <= 2500 THEN "Good"
  ELSE IF grade <= 3000 THEN "Satisfactory"
  ELSE "Needs Improvement"

\* db.query(func.avg(Grade.grade)).filter(...).scalar(): AVG over the FLOAT
\* column is the sum of the stored single-precision values divided by their
\* number: sum/n of the decimal grades plus err (units of 2^-23 / 1000) over
\* n; n = 0 stands for the NULL of an empty set
avg_grade(grs, code) ==
  LET G == GradesOf(grs, code)
  IN  [sum |-> SumGrades(G), n |-> Cardinality(G), err |-> SumFloat32Err(G)]

\* the sentinel written whatever the mean is
gwa_value_sentinel(avg) == 0

\* round(float(avg_grade), 2) if avg_grade else 0.0: when the decimal mean is
\* a tie x.xx5 the average lies above or below it by the error of the stored
\* values, and on it (then round2 decides) when that error is zero
gwa_value(avg) ==
  IF avg.n = 0 \/ avg.sum = 0 THEN 0
  ELSE IF avg.sum % avg.n = 0 /\ (avg.sum \div avg.n) % 10 = 5 /\ avg.err # 0
       THEN IF avg.err > 0 THEN (avg.sum \div avg.n) + 5 ELSE (avg.sum \div avg.n) - 5
       ELSE round2(avg.sum, avg.n)

\* update_student_gwa with the assignment left out
update_student_gwa_skipped(studs, sid, avg) == studs

\* update_student_gwa: student.gwa = round(float(avg_grade), 2) if avg_grade
\* else 0.0; db.commit(): the UPDATE of the loaded row, by its primary key
update_student_gwa(studs, sid, avg) ==
  {IF s.id = sid THEN [s EXCEPT !.gwa = gwa_value(avg)] ELSE s : s \in studs}

Response(op, args, status, detail, body) ==
  [op |-> op, args |-> args, status |-> status, detail |-> detail, body |-> body]

GradeBody(g) ==
  [id |-> g.id, student_code |-> g.student_code, subject_code |-> g.subject_code,
   subject_name |-> g.subject_name, grade |-> g.grade,
   description |-> get_grade_description(g.grade)]

(* ---------------- requests in flight ---------------- *)

Slots == {1, 2}

\* one request: the handler, its position, its validated input, and the
\* handler's locals (the id of the Student row it loaded with that row's gwa and
\* course_code,
\* the id of existing_grade / grade_obj and the attributes loaded with it,
\* avg_grade, the rows deleted but not yet committed, the id of the User row
\* login loaded), then the status it returned
Request(op, pc, args) ==
  [op |-> op, pc |-> pc, args |-> args, student |-> 0, gwa |-> 0, course |-> "",
   existing |-> 0,
   loaded |-> [subject_name |-> "", grade |-> 0],
   avg |-> [sum |-> 0, n |-> 0, err |-> 0], deleted |-> {}, user |-> 0,
   status |-> 0, detail |-> ""]

Idle == Request("none", "idle", <<>>)

(* ---------------- initial state ---------------- *)

Init ==
  /\ courses = {}
  /\ course_subjects = {}
  /\ users = {}
  /\ students = {}
  /\ grades = {}
  /\ nextStudentId = 1
  /\ nextGradeId = 1
  /\ resp = Response("none", <<>>, 0, "", <<>>)
  /\ reqs = [r \in Slots |-> Idle]

(* ---------------- handlers ---------------- *)

\* the seeding running whatever the course table holds
startup_catalog_empty_unchecked(crs) == TRUE

\* existing_courses = db.query(Course).count(); if existing_courses == 0
startup_catalog_empty(crs) == crs = {}

\* db.add_all(bsit_subjects + bscs_subjects + bsba_subjects): one row per
\* entry, under the next autoincrement ids of course_subjects
seed_course_subjects(rows) ==
  rows \cup {[id |-> Cardinality(rows) + i,
              course_code |-> SeedCourseSubjects[i][1],
              subject_code |-> SeedCourseSubjects[i][2],
              subject_name |-> SeedCourseSubjects[i][3]]
               : i \in 1..Len(SeedCourseSubjects)}

\* a password as the sequence of its characters
admin123 == <<"a", "d", "m", "i", "n", "1", "2", "3">>

\* pwd_context.hash: the hash stands for the password it was made from
hash_password(password) == [bcrypt |-> password]

\* pwd_context.verify
verify_password(plain_password, hashed_password) ==
  hashed_password = hash_password(plain_password)

\* default_admin = User(username="admin", password_hash=hash_password("admin123"), ...)
default_admin ==
  [id |-> 1, username |-> <<"a", "d", "m", "i", "n">>,
   password_hash |-> hash_password(admin123),
   full_name |-> "System Administrator", role |-> "admin",
   is_active |-> TRUE, last_login |-> FALSE]

\* startup_event prints "PLEASE CHANGE THE PASSWORD AFTER FIRST LOGIN!": the
\* a password LoginRequest accepts, and the row of admin after its password
\* was changed to it (no handler of this program does it)
Admin_123 == <<"A", "d", "m", "i", "n", "@", "1", "2", "3">>

changed_admin == [default_admin EXCEPT !.password_hash = hash_password(Admin_123)]

\* the course part and the user part of startup_event
startup_courses(crs) == IF startup_catalog_empty(crs) THEN crs \cup SeedCourses ELSE crs

startup_course_subjects(crs, rows) ==
  IF startup_catalog_empty(crs) THEN seed_course_subjects(rows) ELSE rows

startup_users(us) == IF us = {} THEN {default_admin} ELSE us

\* @app.on_event("startup"): the process starts, so no handler is running and
\* none has run in it
startup_event ==
  /\ \A r \in Slots : reqs[r].pc \in {"idle", "done"}
  /\ reqs' = [r \in Slots |-> Idle]
  /\ courses' = startup_courses(courses)
  /\ course_subjects' = startup_course_subjects(courses, course_subjects)
  /\ users' = startup_users(users)
  /\ resp' = Response("startup_event", <<>>, 0, "", <<>>)
  /\ UNCHANGED <<students, grades, nextStudentId, nextGradeId>>

(* ---------------- authentication ---------------- *)

UpperCase == {"A", "B", "C", "D", "E", "F", "G", "H", "I", "J", "K", "L", "M",
              "N", "O", "P", "Q", "R", "S", "T", "U", "V", "W", "X", "Y", "Z"}
LowerCase == {"a", "b", "c", "d", "e", "f", "g", "h", "i", "j", "k", "l", "m",
              "n", "o", "p", "q", "r", "s", "t", "u", "v", "w", "x", "y", "z"}
Digits == {"0", "1", "2", "3", "4", "5", "6", "7", "8", "9"}
\* the class [!@#$%^&*(),.?":{}|<>]
SpecialChars == {"!", "@", "#", "$", "%", "^", "&", "*", "(", ")", ",", ".", "?",
                 "\"", ":", "{", "}", "|", "<", ">"}

UsernameMinLength == 3
UsernameMaxLength == 50
PasswordMinLength == 8

Has(str, class) == \E i \in 1..Len(str) : str[i] \in class

\* re.match(r'^[a-zA-Z0-9_.-]+$', v): one or more characters of the class up
\* to the end of the string, or up to a newline that ends it ($ matches
\* before a trailing newline)
username_pattern(v) ==
  LET n == IF Len(v) > 1 /\ v[Len(v)] = "\n" THEN Len(v) - 1 ELSE Len(v)
  IN  /\ n >= 1
      /\ \A i \in 1..n : v[i] \in UpperCase \cup LowerCase \cup Digits \cup {"_", ".", "-"}

\* LoginRequest.username: min_length, max_length and validate_username
validate_username(v) ==
  /\ Len(v) >= UsernameMinLength
  /\ Len(v) <= UsernameMaxLength
  /\ username_pattern(v)
  /\ v[1] \notin {".", "-"}

\* the message of the error LoginRequest.username raises: the Field
\* constraints come first, validate_username runs on a value that met them
validate_username_detail(v) ==
  IF Len(v) < UsernameMinLength THEN "String should have at least 3 characters"
  ELSE IF Len(v) > UsernameMaxLength THEN "String should have at most 50 characters"
  ELSE IF ~username_pattern(v)
    THEN "Value error, Username can only contain letters, numbers, dots, hyphens, and underscores"
  ELSE "Value error, Username cannot start with dot or hyphen"

\* LoginRequest.password: min_length and validate_password
validate_password(v) ==
  /\ Len(v) >= PasswordMinLength
  /\ Has(v, UpperCase)
  /\ Has(v, LowerCase)
  /\ Has(v, Digits)
  /\ Has(v, SpecialChars)

\* the message of the error LoginRequest.password raises
validate_password_detail(v) ==
  IF Len(v) < PasswordMinLength THEN "String should have at least 8 characters"
  ELSE IF ~Has(v, UpperCase)
    THEN "Value error, Password must contain at least one uppercase letter"
  ELSE IF ~Has(v, LowerCase)
    THEN "Value error, Password must contain at least one lowercase letter"
  ELSE IF ~Has(v, Digits)
    THEN "Value error, Password must contain at least one digit"
  ELSE "Value error, Password must contain at least one special character"

LoginRequest_valid(username, password) ==
  validate_username(username) /\ validate_password(password)

\* the 422 of a body LoginRequest refuses: the message of its first error,
\* username before password
LoginRequest_detail(username, password) ==
  IF ~validate_username(username) THEN validate_username_detail(username)
  ELSE validate_password_detail(password)

\* credentials, as sequences of characters: the announced ones, a password
\* of the required form, a username (ending in a newline) without a row, a
\* username too short
LoginInputs ==
  {<< <<"a", "d", "m", "i", "n">>, admin123 >>,
   << <<"a", "d", "m", "i", "n">>, Admin_123 >>,
   << <<"a", "d", "m", "i", "n", "\n">>, Admin_123 >>,
   << <<"a", "d">>, admin123 >>}

LoginResponse(success, message, role) ==
  [success |-> success, message |-> message, role |-> role]

\* add_student without its duplicate test
add_student_exists_unchecked(studs, code) == FALSE

add_student_exists(studs, code) == StudentsOf(studs, code) # {}

\* add_student without its course lookup
add_student_course_unchecked(crs, course) == FALSE

\* course = db.query(Course).filter(Course.code == ...).first(); if not course
add_student_course_missing(crs, course) == course \notin crs

\* StudentBase: student_code, name and course_code within their lengths
StudentCreate_valid(code, name, course) ==
  /\ Field_str(code, StudentCodeMaxLength)
  /\ Field_str(name, StudentNameMaxLength)
  /\ Field_str(course, CourseCodeMaxLength)

\* the message of the 422, the first of its detail list
StudentCreate_detail(code, name, course) ==
  IF ~Field_str(code, StudentCodeMaxLength) THEN Field_str_detail(code, StudentCodeMaxLength)
  ELSE IF ~Field_str(name, StudentNameMaxLength)
    THEN Field_str_detail(name, StudentNameMaxLength)
  ELSE Field_str_detail(course, CourseCodeMaxLength)

\* the row carrying a course_code of its own
new_student_uncatalogued(id, a) ==
  [id |-> id, student_code |-> a.student_code, name |-> a.name,
   course_code |-> "", gwa |-> 0]

\* new_student = Student(student_code=..., name=..., course_code=..., gwa=0.0)
new_student(id, a) ==
  [id |-> id, student_code |-> a.student_code, name |-> a.name,
   course_code |-> a.course_code, gwa |-> 0]

\* student = db.query(Student).filter(...).first(); if not student
get_student_missing(studs, code) == StudentsOf(studs, code) = {}

update_student_missing(studs, code) == StudentsOf(studs, code) = {}

\* update_student without its course lookup
update_student_course_unchecked(crs, course) == FALSE

update_student_course_missing(crs, course) == course \notin crs

\* the assignment also resetting the gwa of the row
update_student_set_course_and_gwa(studs, sid, course) ==
  {IF s.id = sid THEN [s EXCEPT !.course_code = course, !.gwa = 0] ELSE s
     : s \in studs}

\* student.course_code = student_update.course_code; db.commit(): the UPDATE
\* of the loaded row, by its primary key
update_student_set_course(studs, sid, course) ==
  {IF s.id = sid THEN [s EXCEPT !.course_code = course] ELSE s : s \in studs}

\* StudentUpdate: course_code within its lengths
StudentUpdate_valid(course) == Field_str(course, CourseCodeMaxLength)

\* delete_student without its existence test
delete_student_unchecked(studs, code) == FALSE

delete_student_missing(studs, code) == StudentsOf(studs, code) = {}

\* db.query(Grade).filter(Grade.student_code == student_code).delete()
delete_student_grades(grs, code) == grs \ GradesOf(grs, code)

SubjectRank(subj) == CHOOSE i \in 1..Len(SubjectOrder) : SubjectOrder[i] = subj

\* .order_by(Grade.subject_code).all()
RECURSIVE OrderBySubject(_)
OrderBySubject(G) ==
  IF G = {} THEN <<>>
  ELSE LET g == CHOOSE x \in G : \A y \in G :
                    \/ SubjectRank(x.subject_code) < SubjectRank(y.subject_code)
                    \/ /\ x.subject_code = y.subject_code
                       /\ x.id <= y.id
       IN  <<GradeBody(g)>> \o OrderBySubject(G \ {g})

\* the query without its filter on the student_code
get_student_grades_rows_unfiltered(grs, code) == OrderBySubject(grs)

\* db.query(Grade).filter(Grade.student_code == student_code)
\*   .order_by(Grade.subject_code).all(), one dict per row
get_student_grades_rows(grs, code) == OrderBySubject(GradesOf(grs, code))

\* get_student_grades without its student lookup
get_student_grades_student_unchecked(studs, code) == FALSE

\* student = db.query(Student).filter(...).first(); if not student
get_student_grades_student_missing(studs, code) == StudentsOf(studs, code) = {}

\* add_grade without its student lookup
add_grade_student_unchecked(studs, code) == FALSE

add_grade_student_missing(studs, code) == StudentsOf(studs, code) = {}

add_grade_out_of_range(v) == v < MinGrade \/ v > MaxGrade

\* the lookup never finding a row
existing_grade_none(grs, code, subj) == 0

\* .filter(student_code, subject_code).first(): the row's id, 0 for None
existing_grade(grs, code, subj) ==
  LET rows == GradeRows(grs, code, subj)
  IN  IF rows = {} THEN 0
      ELSE (CHOOSE g \in rows : \A h \in rows : g.id <= h.id).id

\* the existing_grade branch overwriting every row of the student
add_grade_update_all_rows(grs, id, loaded, gd) ==
  {IF g.id = id \/ g.student_code = gd.student_code
   THEN [g EXCEPT !.grade = gd.grade, !.subject_name = gd.subject_name]
   ELSE g : g \in grs}

\* the existing_grade branch: existing_grade.grade = grade_data.grade;
\* existing_grade.subject_name = grade_data.subject_name; db.commit().  The
\* flush sends an UPDATE of the row, by its primary key, that sets the
\* attributes whose new value differs from the loaded one, and only those
add_grade_update(grs, id, loaded, gd) ==
  {IF g.id = id
   THEN [g EXCEPT !.grade = IF gd.grade # loaded.grade THEN gd.grade ELSE @,
                  !.subject_name = IF gd.subject_name # loaded.subject_name
                                   THEN gd.subject_name ELSE @]
   ELSE g : g \in grs}

\* the else branch: insert a new row under the next autoincrement id
add_grade_insert(grs, nid, gd) ==
  grs \cup {[id |-> nid, student_code |-> gd.student_code,
             subject_code |-> gd.subject_code,
             subject_name |-> gd.subject_name, grade |-> gd.grade]}

GradeById(grs, id) == CHOOSE g \in grs : g.id = id

(* ---------------- handlers, one database round trip per step ---------------- *)

ConcStudentInputs == {<<"24-001", "Ana", "BSIT">>}
ConcCourseInputs == {"BSCS"}
ConcGradeInputs ==
  {<<"CS101", "Programming", 1000>>, <<"CS101", "Programming", 5000>>}

Free(r) == reqs[r].pc \in {"idle", "done"}

Goto(r, pc) == reqs' = [reqs EXCEPT ![r].pc = pc]

\* the detail of the 500 an unhandled exception is answered with
ServerError == "Internal Server Error"

\* the handler returns or raises: its locals go, status and detail stay on
\* record
Return(r, status, detail) ==
  reqs' = [reqs EXCEPT ![r].pc = "done", ![r].status = status,
                       ![r].detail = detail,
                       ![r].student = 0, ![r].gwa = 0, ![r].course = "",
                       ![r].existing = 0,
                       ![r].loaded = [subject_name |-> "", grade |-> 0],
                       ![r].avg = [sum |-> 0, n |-> 0, err |-> 0],
                       ![r].deleted = {}, ![r].user = 0]

\* a request answered by its first step
Reject(q, status, detail) == [q EXCEPT !.pc = "done", !.status = status, !.detail = detail]

\* Student.student_code, unique=True: an INSERT of a code that has a row fails
student_code_unique(studs, code) == StudentsOf(studs, code) # {}

\* Student.course_code, ForeignKey('courses.code'): an INSERT or UPDATE naming
\* a course_code that has no course row fails
students_course_code_fk(crs, course) == course \notin crs

\* grades.student_code without its foreign key
grades_student_code_fk_dropped(studs, code) == FALSE

\* Grade.student_code, ForeignKey('students.student_code'): an INSERT naming a
\* student_code that has no student row fails
grades_student_code_fk(studs, code) == StudentsOf(studs, code) = {}

\* grades without uq_student_subject
uq_student_subject_dropped(grs, code, subj) == FALSE

\* UniqueConstraint('student_code', 'subject_code', name='uq_student_subject'):
\* an INSERT of a pair that has a row fails
uq_student_subject(grs, code, subj) == GradeRows(grs, code, subj) # {}

(* Every handler runs on a session of its own.  The engine is InnoDB at its
   default isolation level, REPEATABLE READ: the plain SELECTs of one
   transaction all read the snapshot its first SELECT opens, so they make one
   step; every write with its db.commit() is a step, and so is every read
   that follows a commit. *)

\* POST /api/students arrives, StudentCreate validates the body (422), and
\* add_student runs its two existence queries
as_check(r, code, name, course) ==
  /\ Free(r)
  /\ reqs' = [reqs EXCEPT ![r] =
       LET q == Request("add_student", "as_insert",
                  [student_code |-> code, name |-> name, course_code |-> course])
       IN  IF ~StudentCreate_valid(code, name, course)
             THEN Reject(q, 422, StudentCreate_detail(code, name, course))
           ELSE IF add_student_exists(students, code)
             THEN Reject(q, 400, "Student code already exists")
           ELSE IF add_student_course_missing(courses, course)
             THEN Reject(q, 400, "Course not found")
           ELSE q]
  /\ UNCHANGED <<courses, course_subjects, users, students, grades, nextStudentId, nextGradeId>>

\* db.add(new_student); db.commit(): students.student_code is unique=True and
\* course_code is a foreign key, so the INSERT fails (500) on a duplicate or a
\* missing course; the AUTO_INCREMENT value it reserved is spent either way
as_insert(r) ==
  LET a == reqs[r].args
  IN  /\ reqs[r].pc = "as_insert"
      /\ nextStudentId <= MaxStudentId
      /\ nextStudentId' = nextStudentId + 1
      /\ IF \/ student_code_unique(students, a.student_code)
            \/ students_course_code_fk(courses, a.course_code) THEN
           /\ Return(r, 500, ServerError)
           /\ UNCHANGED students
         ELSE
           /\ students' = students \cup {new_student(nextStudentId, a)}
           /\ reqs' = [reqs EXCEPT ![r].pc = "as_refresh", ![r].student = nextStudentId]
      /\ UNCHANGED <<courses, course_subjects, users, grades, nextGradeId>>

\* db.refresh(new_student): the row is read back by its id in a transaction
\* of its own, and the refresh raises (500) when the row is gone by then
as_refresh(r) ==
  /\ reqs[r].pc = "as_refresh"
  /\ IF \E s \in students : s.id = reqs[r].student THEN Return(r, 200, "")
     ELSE Return(r, 500, ServerError)
  /\ UNCHANGED <<courses, course_subjects, users, students, grades, nextStudentId, nextGradeId>>

\* GET /api/students/{student_code}: one query
get_student(r, code) ==
  /\ Free(r)
  /\ reqs' = [reqs EXCEPT ![r] =
       LET q == Request("get_student", "done", [student_code |-> code])
       IN  IF get_student_missing(students, code)
           THEN Reject(q, 404, "Student not found")
           ELSE Reject(q, 200, "")]
  /\ UNCHANGED <<courses, course_subjects, users, students, grades, nextStudentId, nextGradeId>>

\* GET /api/students/{student_code}/grades: the student query and the grades
\* query, in one snapshot
get_student_grades(r, code) ==
  /\ Free(r)
  /\ reqs' = [reqs EXCEPT ![r] =
       LET q == Request("get_student_grades", "done", [student_code |-> code])
       IN  IF get_student_grades_student_missing(students, code)
           THEN Reject(q, 404, "Student not found")
           ELSE Reject(q, 200, "")]
  /\ UNCHANGED <<courses, course_subjects, users, students, grades, nextStudentId, nextGradeId>>

\* the attributes the session holds for a Grade row it loaded
loaded_grade(grs, id) ==
  IF id = 0 THEN [subject_name |-> "", grade |-> 0]
  ELSE LET g == GradeById(grs, id)
       IN  [subject_name |-> g.subject_name, grade |-> g.grade]

\* grade_data: the body as GradeCreate hands it to add_grade, its grade
\* rounded by validate_grade
grade_data(args) == [args EXCEPT !.grade = validate_grade(args.grade)]

\* POST /api/grades arrives and GradeCreate validates the grade (422);
\* add_grade runs the student query, the range test, and
\* existing_grade = db.query(Grade).filter(...).first()
ag_student(r, code, subj, sname, v) ==
  /\ Free(r)
  /\ reqs' = [reqs EXCEPT ![r] =
       LET q == Request("add_grade", "ag_write",
                  [student_code |-> code, subject_code |-> subj,
                   subject_name |-> sname, grade |-> v])
           ex == existing_grade(grades, code, subj)
       IN  IF ~GradeCreate_valid(subj, sname, v)
             THEN Reject(q, 422, GradeCreate_detail(subj, sname, v))
           ELSE IF add_grade_student_missing(students, code)
             THEN Reject(q, 404, "Student not found")
           ELSE IF add_grade_out_of_range(grade_data(q.args).grade)
             THEN Reject(q, 400, "Grade must be between 1.0 and 5.0")
           ELSE [q EXCEPT !.existing = ex, !.loaded = loaded_grade(grades, ex)]]
  /\ UNCHANGED <<courses, course_subjects, users, students, grades, nextStudentId, nextGradeId>>

\* the UPDATE or the INSERT, then the first db.commit().  No UPDATE is sent
\* when both assigned attributes equal the loaded ones; an UPDATE of a row that
\* is gone fails (500); an INSERT breaking uq_student_subject or the foreign
\* key to students fails (500) and spends the AUTO_INCREMENT value it reserved
ag_write(r) ==
  LET a == grade_data(reqs[r].args)
      ex == reqs[r].existing
      ld == reqs[r].loaded
  IN  /\ reqs[r].pc = "ag_write"
      /\ IF ex # 0 THEN
           IF a.grade = ld.grade /\ a.subject_name = ld.subject_name THEN
             /\ Goto(r, "ag_refresh")
             /\ UNCHANGED <<grades, nextGradeId>>
           ELSE IF \E g \in grades : g.id = ex THEN
             /\ grades' = add_grade_update(grades, ex, ld, a)
             /\ Goto(r, "ag_refresh")
             /\ UNCHANGED nextGradeId
           ELSE
             /\ Return(r, 500, ServerError)
             /\ UNCHANGED <<grades, nextGradeId>>
         ELSE
           /\ nextGradeId <= MaxGradeId
           /\ nextGradeId' = nextGradeId + 1
           /\ IF \/ uq_student_subject(grades, a.student_code, a.subject_code)
                 \/ grades_student_code_fk(students, a.student_code) THEN
                /\ Return(r, 500, ServerError)
                /\ UNCHANGED grades
              ELSE
                /\ grades' = add_grade_insert(grades, nextGradeId, a)
                /\ reqs' = [reqs EXCEPT ![r].pc = "ag_refresh", ![r].existing = nextGradeId]
      /\ UNCHANGED <<courses, course_subjects, users, students, nextStudentId>>

\* the Student row a query by student_code loads, 0 when it finds none
loaded_student(studs, code) ==
  IF StudentsOf(studs, code) = {} THEN 0
  ELSE (CHOOSE s \in StudentsOf(studs, code) : TRUE).id

\* db.refresh(existing_grade) / db.refresh(new_grade) reads the row back by
\* its id, into the attributes the session holds for it, and raises (500)
\* when the row is gone by then; update_student_gwa
\* then reads avg_grade = db.query(func.avg(Grade.grade))...scalar() and
\* student = db.query(Student)...first() in the same transaction
ag_refresh(r) ==
  LET code == reqs[r].args.student_code
      sid == loaded_student(students, code)
  IN  /\ reqs[r].pc = "ag_refresh"
      /\ IF \E g \in grades : g.id = reqs[r].existing THEN
           reqs' = [reqs EXCEPT ![r].pc = "ag_gwa",
                                ![r].loaded = loaded_grade(grades, reqs[r].existing),
                                ![r].avg = avg_grade(grades, code),
                                ![r].student = sid,
                                ![r].gwa = IF sid = 0 THEN 0
                                           ELSE (CHOOSE s \in students : s.id = sid).gwa]
         ELSE Return(r, 500, ServerError)
      /\ UNCHANGED <<courses, course_subjects, users, students, grades, nextStudentId, nextGradeId>>

\* db.commit() expires what the session holds for grade_obj
Expire(r) ==
  reqs' = [reqs EXCEPT ![r].pc = "ag_reload",
                       ![r].loaded = [subject_name |-> "", grade |-> 0]]

\* update_student_gwa: if student: student.gwa = ...; db.commit().  Without a
\* student there is no commit and add_grade answers from the refreshed row;
\* a gwa equal to the loaded one sends no UPDATE; the UPDATE of a student row
\* that is gone fails (500)
ag_gwa(r) ==
  LET sid == reqs[r].student
  IN  /\ reqs[r].pc = "ag_gwa"
      /\ IF sid = 0 THEN
           /\ Return(r, 200, "")
           /\ UNCHANGED students
         ELSE IF gwa_value(reqs[r].avg) = reqs[r].gwa THEN
           /\ Expire(r)
           /\ UNCHANGED students
         ELSE IF \E s \in students : s.id = sid THEN
           /\ students' = update_student_gwa(students, sid, reqs[r].avg)
           /\ Expire(r)
         ELSE
           /\ Return(r, 500, ServerError)
           /\ UNCHANGED students
      /\ UNCHANGED <<courses, course_subjects, users, grades, nextStudentId, nextGradeId>>

\* the response: the second commit expired grade_obj, so reading its
\* attributes loads the row again, and raises (500) when the row is gone
ag_reload(r) ==
  /\ reqs[r].pc = "ag_reload"
  /\ IF \E g \in grades : g.id = reqs[r].existing THEN Return(r, 200, "")
     ELSE Return(r, 500, ServerError)
  /\ UNCHANGED <<courses, course_subjects, users, students, grades, nextStudentId, nextGradeId>>

\* DELETE /api/students/{student_code} arrives;
\* student = db.query(Student).filter(...).first()
ds_student(r, code) ==
  /\ Free(r)
  /\ reqs' = [reqs EXCEPT ![r] =
       LET q == Request("delete_student", "ds_grades", [student_code |-> code])
       IN  IF delete_student_missing(students, code)
           THEN Reject(q, 404, "Student not found")
           ELSE [q EXCEPT !.student = loaded_student(students, code)]]
  /\ UNCHANGED <<courses, course_subjects, users, students, grades, nextStudentId, nextGradeId>>

\* the bulk DELETE of the student's grades: executed inside the session's
\* transaction, so the rows stay in the committed table until db.commit()
ds_grades(r) ==
  /\ reqs[r].pc = "ds_grades"
  /\ reqs' = [reqs EXCEPT ![r].pc = "ds_commit",
                          ![r].deleted =
                            {g.id : g \in grades}
                              \ {g.id : g \in delete_student_grades(grades,
                                                reqs[r].args.student_code)}]
  /\ UNCHANGED <<courses, course_subjects, users, students, grades, nextStudentId, nextGradeId>>

\* db.delete(student); db.commit(): one commit publishes the grade deletes
\* and the student delete together.  The student is deleted by the id that
\* was loaded; when that row is already gone the DELETE matches no row, which
\* the session only warns about, and the commit goes through (200).  Grade
\* rows of the student that the bulk DELETE did not remove are removed by the
\* relationship's cascade or make the DELETE break the foreign key (500,
\* everything rolled back), as the engine has it.
ds_commit(r) ==
  LET code == reqs[r].args.student_code
      sid == reqs[r].student
      rest == {g \in grades : g.id \notin reqs[r].deleted}
  IN  /\ reqs[r].pc = "ds_commit"
      /\ IF \E s \in students : s.id = sid THEN
           \/ /\ grades' = rest \ GradesOf(rest, code)
              /\ students' = {s \in students : s.id # sid}
              /\ Return(r, 200, "Student deleted successfully")
           \/ /\ GradesOf(rest, code) # {}
              /\ Return(r, 500, ServerError)
              /\ UNCHANGED <<students, grades>>
         ELSE
           /\ grades' = rest
           /\ Return(r, 200, "Student deleted successfully")
           /\ UNCHANGED students
      /\ UNCHANGED <<courses, course_subjects, users, nextStudentId, nextGradeId>>

\* PUT /api/students/{student_code} arrives, StudentUpdate validates the body
\* (422); update_student runs the student query and the course query
us_student(r, code, course) ==
  /\ Free(r)
  /\ reqs' = [reqs EXCEPT ![r] =
       LET q == Request("update_student", "us_commit",
                  [student_code |-> code, course_code |-> course])
           sid == loaded_student(students, code)
       IN  IF ~StudentUpdate_valid(course)
             THEN Reject(q, 422, Field_str_detail(course, CourseCodeMaxLength))
           ELSE IF update_student_missing(students, code)
             THEN Reject(q, 404, "Student not found")
           ELSE IF update_student_course_missing(courses, course)
             THEN Reject(q, 400, "Course not found")
           ELSE [q EXCEPT !.student = sid,
                          !.course = (CHOOSE s \in students : s.id = sid).course_code]]
  /\ UNCHANGED <<courses, course_subjects, users, students, grades, nextStudentId, nextGradeId>>

\* student.course_code = ...; db.commit(): no UPDATE is sent when the course
\* equals the loaded one; the UPDATE of a row that is gone fails (500), and so
\* does one that breaks the foreign key to courses
us_commit(r) ==
  LET sid == reqs[r].student
      course == reqs[r].args.course_code
  IN  /\ reqs[r].pc = "us_commit"
      /\ IF course = reqs[r].course THEN
           /\ Goto(r, "us_refresh")
           /\ UNCHANGED students
         ELSE IF /\ \E s \in students : s.id = sid
                 /\ ~students_course_code_fk(courses, course) THEN
           /\ students' = update_student_set_course(students, sid, course)
           /\ Goto(r, "us_refresh")
         ELSE
           /\ Return(r, 500, ServerError)
           /\ UNCHANGED students
      /\ UNCHANGED <<courses, course_subjects, users, grades, nextStudentId, nextGradeId>>

\* db.refresh(student): raises (500) when the row is gone by then
us_refresh(r) ==
  /\ reqs[r].pc = "us_refresh"
  /\ IF \E s \in students : s.id = reqs[r].student THEN Return(r, 200, "")
     ELSE Return(r, 500, ServerError)
  /\ UNCHANGED <<courses, course_subjects, users, students, grades, nextStudentId, nextGradeId>>

\* POST /api/auth/login arrives, LoginRequest validates the body (422);
\* login runs the user query and its three tests, each answered with a
\* LoginResponse that says success=False
login(r, username, password) ==
  LET q == Request("login", "login_commit", [username |-> username, password |-> password])
      found == {u \in users : u.username = username}
      user == CHOOSE u \in found : TRUE
  IN  /\ Free(r)
      /\ reqs' = [reqs EXCEPT ![r] =
           IF ~LoginRequest_valid(username, password)
             THEN Reject(q, 422, LoginRequest_detail(username, password))
           ELSE IF found = {} THEN Reject(q, 200, "Invalid username or password")
           ELSE IF ~user.is_active THEN Reject(q, 200, "Account is deactivated")
           ELSE IF ~verify_password(password, user.password_hash)
             THEN Reject(q, 200, "Invalid username or password")
           ELSE [q EXCEPT !.user = user.id]]
      /\ UNCHANGED <<courses, course_subjects, users, students, grades, nextStudentId, nextGradeId>>

\* user.last_login = datetime.now(); db.commit(): the UPDATE of the row
\* login loaded, committed; the UPDATE of a row that is gone fails (500)
login_commit(r) ==
  LET uid == reqs[r].user
  IN  /\ reqs[r].pc = "login_commit"
      /\ IF \E u \in users : u.id = uid THEN
           /\ users' = {IF u.id = uid THEN [u EXCEPT !.last_login = TRUE] ELSE u : u \in users}
           /\ Goto(r, "login_reload")
         ELSE
           /\ Return(r, 500, ServerError)
           /\ UNCHANGED users
      /\ UNCHANGED <<courses, course_subjects, students, grades, nextStudentId, nextGradeId>>

\* return LoginResponse(success=True, ..., user={"id": user.id, ...}): the
\* commit expired user, its attributes are loaded again in a new transaction;
\* the load of a row that is gone fails (500)
login_reload(r) ==
  /\ reqs[r].pc = "login_reload"
  /\ IF \E u \in users : u.id = reqs[r].user THEN Return(r, 200, "Login successful")
     ELSE Return(r, 500, ServerError)
  /\ UNCHANGED <<courses, course_subjects, users, students, grades, nextStudentId, nextGradeId>>

\* a storage error inside a handler: the exception leaves the handler, get_db
\* closes the session, and whatever it had not committed is rolled back
storage_error(r) ==
  /\ ~Free(r)
  /\ Return(r, 500, ServerError)
  /\ UNCHANGED <<courses, course_subjects, users, students, grades, nextStudentId, nextGradeId>>

conc_startup ==
  /\ courses = {}
  /\ courses' = startup_courses(courses)
  /\ course_subjects' = startup_course_subjects(courses, course_subjects)
  /\ users' = startup_users(users)
  /\ UNCHANGED <<students, grades, nextStudentId, nextGradeId, reqs>>

\* the handlers of concurrent requests, interleaved step by step
NextConc ==
  \/ (conc_startup /\ UNCHANGED resp)
  \/ \E r \in Slots :
       \/ \E i \in ConcStudentInputs : (as_check(r, i[1], i[2], i[3]) /\ UNCHANGED resp)
       \/ (as_insert(r) /\ UNCHANGED resp)
       \/ (as_refresh(r) /\ UNCHANGED resp)
       \/ \E i \in ConcStudentInputs, j \in ConcGradeInputs :
            (ag_student(r, i[1], j[1], j[2], j[3]) /\ UNCHANGED resp)
       \/ (ag_write(r) /\ UNCHANGED resp)
       \/ (ag_refresh(r) /\ UNCHANGED resp)
       \/ (ag_gwa(r) /\ UNCHANGED resp)
       \/ (ag_reload(r) /\ UNCHANGED resp)
       \/ \E i \in ConcStudentInputs : (ds_student(r, i[1]) /\ UNCHANGED resp)
       \/ (ds_grades(r) /\ UNCHANGED resp)
       \/ (ds_commit(r) /\ UNCHANGED resp)
       \/ \E i \in ConcStudentInputs, k \in ConcCourseInputs :
            (us_student(r, i[1], k) /\ UNCHANGED resp)
       \/ (us_commit(r) /\ UNCHANGED resp)
       \/ (us_refresh(r) /\ UNCHANGED resp)
       \/ (storage_error(r) /\ UNCHANGED resp)

SpecConc == Init /\ [][NextConc]_vars

(* ---------------- concurrent logins ---------------- *)

\* the announced credentials and those of changed_admin
AuthLoginInputs == {<<default_admin.username, admin123>>, <<default_admin.username, Admin_123>>}

\* a store that was never started on, or one whose admin changed the password
InitAuth ==
  /\ courses = {}
  /\ course_subjects = {}
  /\ users \in {{}, {changed_admin}}
  /\ students = {}
  /\ grades = {}
  /\ nextStudentId = 1
  /\ nextGradeId = 1
  /\ resp = Response("none", <<>>, 0, "", <<>>)
  /\ reqs = [r \in Slots |-> Idle]

\* the steps of login, of two requests in flight at once, next to those of
\* add_student; of the other handlers none reads or writes the users table
NextAuth ==
  \/ (conc_startup /\ UNCHANGED resp)
  \/ \E r \in Slots :
       \/ \E i \in AuthLoginInputs : (login(r, i[1], i[2]) /\ UNCHANGED resp)
       \/ (login_commit(r) /\ UNCHANGED resp)
       \/ (login_reload(r) /\ UNCHANGED resp)
       \/ \E i \in ConcStudentInputs : (as_check(r, i[1], i[2], i[3]) /\ UNCHANGED resp)
       \/ (as_insert(r) /\ UNCHANGED resp)
       \/ (as_refresh(r) /\ UNCHANGED resp)
       \/ (storage_error(r) /\ UNCHANGED resp)

SpecAuth == InitAuth /\ [][NextAuth]_vars

(* ---------------- one client, one request at a time ---------------- *)

\* the slot of the client that sends a request, waits for its response, and
\* only then sends the next
Client == 1

\* the tables as the request in flight found them, and the last response when
\* it answered the same request
InFlight(q) ==
  [op |-> "in_flight", args |-> q.args, status |-> 0, detail |-> "", body |-> <<>>,
   before |-> [courses |-> courses, users |-> users, students |-> students,
               grades |-> grades, nextStudentId |-> nextStudentId,
               nextGradeId |-> nextGradeId],
   last |-> IF resp.op = q.op /\ resp.args = q.args THEN resp
            ELSE Response("none", <<>>, 0, "", <<>>)]

\* what the handler returns with a 200: the refreshed row of add_student and
\* update_student, the row get_student found, the list of get_student_grades,
\* the dict add_grade builds from grade_obj (q holds the handler's locals,
\* studs, grs and us are the tables as the returning step leaves them), the
\* LoginResponse of login
ResponseBody(op, args, detail, q, studs, grs, us) ==
  IF op \in {"add_student", "update_student"}
    THEN CHOOSE s \in studs : s.id = q.student
  ELSE IF op = "get_student"
    THEN CHOOSE s \in StudentsOf(studs, args.student_code) : TRUE
  ELSE IF op = "get_student_grades"
    THEN get_student_grades_rows(grs, args.student_code)
  ELSE IF op = "add_grade"
    THEN IF q.pc = "ag_gwa"
         THEN GradeBody([id |-> q.existing, student_code |-> args.student_code,
                         subject_code |-> args.subject_code,
                         subject_name |-> q.loaded.subject_name,
                         grade |-> q.loaded.grade])
         ELSE GradeBody(GradeById(grs, q.existing))
  ELSE IF op = "login"
    THEN IF detail = "Login successful"
         THEN LoginResponse(TRUE, detail,
                            (CHOOSE u \in us : u.id = q.user).role)
         ELSE LoginResponse(FALSE, detail, "")
  ELSE <<>>

\* the client's view of a step of its request: the response when the step
\* returns, the request in flight otherwise
Observe ==
  LET q == reqs[Client]
      d == reqs'[Client]
  IN  resp' = IF d.pc = "done"
              THEN Response(d.op, d.args, d.status, d.detail,
                            IF d.status = 200
                            THEN ResponseBody(d.op, d.args, d.detail, q,
                                              students', grades', users')
                            ELSE <<>>)
              ELSE IF Free(Client) THEN InFlight(d)
              ELSE resp

\* the users table of this client's store holds default_admin at most, so
\* login returns at one of its tests; login_commit and login_reload are steps
\* of NextAuth, whose store may hold changed_admin
Next ==
  \/ startup_event
  \/ \E i \in StudentInputs : (as_check(Client, i[1], i[2], i[3]) /\ Observe)
  \/ (as_insert(Client) /\ Observe)
  \/ (as_refresh(Client) /\ Observe)
  \/ \E c \in StudentCodes : (get_student(Client, c) /\ Observe)
  \/ \E c \in StudentCodes, k \in CourseInputs : (us_student(Client, c, k) /\ Observe)
  \/ (us_commit(Client) /\ Observe)
  \/ (us_refresh(Client) /\ Observe)
  \/ \E c \in StudentCodes : (ds_student(Client, c) /\ Observe)
  \/ (ds_grades(Client) /\ Observe)
  \/ (ds_commit(Client) /\ Observe)
  \/ \E c \in StudentCodes : (get_student_grades(Client, c) /\ Observe)
  \/ \E c \in StudentCodes, i \in GradeInputs :
       (ag_student(Client, c, i[1], i[2], i[3]) /\ Observe)
  \/ (ag_write(Client) /\ Observe)
  \/ (ag_refresh(Client) /\ Observe)
  \/ (ag_gwa(Client) /\ Observe)
  \/ (ag_reload(Client) /\ Observe)
  \/ \E i \in LoginInputs : (login(Client, i[1], i[2]) /\ Observe)

Spec == Init /\ [][Next]_vars

(* ---------------- the classifiers, applied to every value of the scale ---------------- *)

\* one hundredth, in thousandths
GradeStep == 10

\* 0.0 and every hundredth of [1.00, 5.00]
GradeValues == {0} \cup {v \in MinGrade..MaxGrade : v % GradeStep = 0}

describe(v) ==
  /\ resp' = Response("get_grade_description", [grade |-> v], 0, "",
                      [backend |-> get_grade_description(v),
                       GradeSystem |-> GradeSystem_get_description(v),
                       EduCoreApp |-> EduCoreApp_get_grade_description(v),
                       StudentPortalWindow |-> StudentPortalWindow_get_grade_description(v)])
  /\ UNCHANGED <<courses, course_subjects, users, students, grades, nextStudentId, nextGradeId, reqs>>

NextClassify == \E v \in GradeValues : describe(v)

SpecClassify == Init /\ [][NextClassify]_vars

(* ---------------- the Flask backend (src/app.py), autocommit connection ---------------- *)

FlaskStudentInputs == {<<"24-001", "Ana", "BSIT">>}

\* multiples of 0.25: with at most two subjects per student every mean is
\* an exact number of thousandths
FlaskGradeInputs ==
  {<<"CS101", "Programming", 1000>>, <<"CS101", "Computer Programming", 1250>>,
   <<"MATH101", "Calculus", 5000>>}

\* whether mysql.connector raises Error at a statement
StatementFaults == {"none", "error"}
FlaskCourseInputs == {"BSCS"}

\* what the grades table does with the rows of a deleted student: the tables
\* are created outside app.py, with a cascading foreign key, a restricting
\* one, or none
FlaskGradeKeys == {"cascade", "restrict", "absent"}

\* the handler returns: only its outcome stays on record, with the statement
\* at which an Error was raised, if one was
FlaskReturn(r, status, detail, fault) ==
  reqs' = [reqs EXCEPT ![r] =
             [Request(reqs[r].op, "done", [fault |-> fault])
                EXCEPT !.status = status, !.detail = detail]]

\* the same for a request answered by its first statement
FlaskAnswer(op, status, detail, fault) ==
  [Request(op, "done", [fault |-> fault]) EXCEPT !.status = status, !.detail = detail]

(* The connection is opened with autocommit=True: every cursor.execute is a
   transaction of its own, and the statements of requests served at the same
   time interleave. *)

\* POST /api/students arrives; SELECT student_code FROM students WHERE ...:
\* an Error gives the 500, a row the 400
flask_add_student_select(r, code, name, course, fault) ==
  /\ Free(r)
  /\ reqs' = [reqs EXCEPT ![r] =
       IF fault = "error" THEN FlaskAnswer("flask_add_student", 500, "Error", "select")
       ELSE IF StudentsOf(students, code) # {}
         THEN FlaskAnswer("flask_add_student", 400, "Student code already exists", "none")
       ELSE Request("flask_add_student", "flask_add_student_insert",
                    [student_code |-> code, name |-> name, course_code |-> course])]
  /\ UNCHANGED <<courses, course_subjects, users, students, grades, nextStudentId, nextGradeId>>

\* INSERT INTO students (student_code, name, course_code): an Error, and the
\* one of a student_code that has a row by now, gives the 500; no course lookup
flask_add_student_insert(r, fault) ==
  LET a == reqs[r].args
      row == [student_code |-> a.student_code, name |-> a.name,
              course_code |-> a.course_code, gwa |-> 0]
  IN  /\ reqs[r].pc = "flask_add_student_insert"
      /\ IF fault = "error" \/ StudentsOf(students, a.student_code) # {} THEN
           /\ FlaskReturn(r, 500, "Error", "insert")
           /\ UNCHANGED students
         ELSE
           /\ students' = students \cup {row}
           /\ FlaskReturn(r, 200, "Student added successfully", "none")
      /\ UNCHANGED <<courses, course_subjects, users, grades, nextStudentId, nextGradeId>>

\* DELETE /api/students/<student_code>: one DELETE FROM students on the
\* autocommit connection; rowcount 0 gives the 404, an Error the 500
flask_delete_student(r, code, key, fault) ==
  /\ Free(r)
  /\ IF fault = "error" THEN
       /\ reqs' = [reqs EXCEPT ![r] = FlaskAnswer("flask_delete_student", 500, "Error", "delete")]
       /\ UNCHANGED <<students, grades>>
     ELSE IF StudentsOf(students, code) = {} THEN
       /\ reqs' = [reqs EXCEPT ![r] =
                     FlaskAnswer("flask_delete_student", 404, "Student not found", "none")]
       /\ UNCHANGED <<students, grades>>
     ELSE IF key = "restrict" /\ GradesOf(grades, code) # {} THEN
       /\ reqs' = [reqs EXCEPT ![r] = FlaskAnswer("flask_delete_student", 500, "Error", "delete")]
       /\ UNCHANGED <<students, grades>>
     ELSE
       /\ students' = students \ StudentsOf(students, code)
       /\ grades' = IF key = "cascade" THEN grades \ GradesOf(grades, code) ELSE grades
       /\ reqs' = [reqs EXCEPT ![r] =
                     FlaskAnswer("flask_delete_student", 200,
                                 "Student deleted successfully", "none")]
  /\ UNCHANGED <<courses, course_subjects, users, nextStudentId, nextGradeId>>

\* PUT /api/students/<student_code>: one UPDATE students SET course_code, no
\* course lookup; rowcount counts the rows the UPDATE changed, so a student
\* who has the course already gives rowcount 0 and the 404 like a missing one
flask_update_student(r, code, course, fault) ==
  LET changed == {s \in StudentsOf(students, code) : s.course_code # course}
  IN  /\ Free(r)
      /\ IF fault = "error" THEN
           /\ reqs' = [reqs EXCEPT ![r] =
                         FlaskAnswer("flask_update_student", 500, "Error", "update")]
           /\ UNCHANGED students
         ELSE IF changed = {} THEN
           /\ reqs' = [reqs EXCEPT ![r] =
                         FlaskAnswer("flask_update_student", 404, "Student not found", "none")]
           /\ UNCHANGED students
         ELSE
           /\ students' = {IF s \in changed THEN [s EXCEPT !.course_code = course] ELSE s
                             : s \in students}
           /\ reqs' = [reqs EXCEPT ![r] =
                         FlaskAnswer("flask_update_student", 200,
                                     "Student updated successfully", "none")]
      /\ UNCHANGED <<courses, course_subjects, users, grades, nextStudentId, nextGradeId>>

\* INSERT ... ON DUPLICATE KEY UPDATE grade = VALUES(grade): a row of the pair
\* gets the new grade and keeps its subject_name, else the row is inserted
flask_upsert(grs, code, subj, sname, v) ==
  IF GradeRows(grs, code, subj) # {}
  THEN {IF g.student_code = code /\ g.subject_code = subj
        THEN [g EXCEPT !.grade = v] ELSE g : g \in grs}
  ELSE grs \cup {[student_code |-> code, subject_code |-> subj,
                  subject_name |-> sname, grade |-> v]}

\* avg_grade = result[0] if result[0] else 0.0
flask_avg_grade(grs, code) ==
  LET avg == avg_grade(grs, code)
  IN  IF avg.n = 0 \/ avg.sum = 0 THEN 0 ELSE avg.sum \div avg.n

\* POST /api/grades arrives; the upsert: an Error reaches the handler's except
\* clause and gives the 500
flask_add_grade_upsert(r, code, subj, sname, v, fault) ==
  /\ Free(r)
  /\ IF fault = "error" THEN
       /\ reqs' = [reqs EXCEPT ![r] = FlaskAnswer("flask_add_grade", 500, "Error", "insert")]
       /\ UNCHANGED grades
     ELSE
       /\ grades' = flask_upsert(grades, code, subj, sname, v)
       /\ reqs' = [reqs EXCEPT ![r] =
                     Request("flask_add_grade", "flask_update_gwa_select",
                             [student_code |-> code, subject_code |-> subj,
                              subject_name |-> sname, grade |-> v])]
  /\ UNCHANGED <<courses, course_subjects, users, students, nextStudentId, nextGradeId>>

\* update_gwa: SELECT AVG(grade) ... WHERE student_code = %s.  update_gwa
\* catches an Error and prints it, returns normally, and add_grade answers
\* with its success message
flask_update_gwa_select(r, fault) ==
  /\ reqs[r].pc = "flask_update_gwa_select"
  /\ IF fault = "error"
     THEN FlaskReturn(r, 200, "Grade added successfully", "update_gwa")
     ELSE reqs' = [reqs EXCEPT ![r].pc = "flask_update_gwa_update",
                               ![r].gwa = flask_avg_grade(grades, reqs[r].args.student_code)]
  /\ UNCHANGED <<courses, course_subjects, users, students, grades, nextStudentId, nextGradeId>>

\* update_gwa: UPDATE students SET gwa = %s WHERE student_code = %s, with the
\* average read before; an Error is caught and printed here too
flask_update_gwa_update(r, fault) ==
  /\ reqs[r].pc = "flask_update_gwa_update"
  /\ IF fault = "error" THEN
       /\ FlaskReturn(r, 200, "Grade added successfully", "update_gwa")
       /\ UNCHANGED students
     ELSE
       /\ students' = {IF s.student_code = reqs[r].args.student_code
                       THEN [s EXCEPT !.gwa = reqs[r].gwa] ELSE s : s \in students}
       /\ FlaskReturn(r, 200, "Grade added successfully", "none")
  /\ UNCHANGED <<courses, course_subjects, users, grades, nextStudentId, nextGradeId>>

NextFlask ==
  \E r \in Slots :
    \/ \E i \in FlaskStudentInputs, f \in StatementFaults :
         (flask_add_student_select(r, i[1], i[2], i[3], f) /\ UNCHANGED resp)
    \/ \E f \in StatementFaults : (flask_add_student_insert(r, f) /\ UNCHANGED resp)
    \/ \E i \in FlaskStudentInputs, j \in FlaskGradeInputs, f \in StatementFaults :
         (flask_add_grade_upsert(r, i[1], j[1], j[2], j[3], f) /\ UNCHANGED resp)
    \/ \E f \in StatementFaults : (flask_update_gwa_select(r, f) /\ UNCHANGED resp)
    \/ \E f \in StatementFaults : (flask_update_gwa_update(r, f) /\ UNCHANGED resp)
    \/ \E i \in FlaskStudentInputs, k \in FlaskGradeKeys, f \in StatementFaults :
         (flask_delete_student(r, i[1], k, f) /\ UNCHANGED resp)
    \/ \E i \in FlaskStudentInputs, k \in FlaskCourseInputs, f \in StatementFaults :
         (flask_update_student(r, i[1], k, f) /\ UNCHANGED resp)

SpecFlask == Init /\ [][NextFlask]_vars

(* ---------------- analytics over a stored grades table ---------------- *)

\* grade_ranges: min and max of each entry, in list order
grade_ranges ==
  << [range |-> "1.0 (Excellent)", min |-> 1000, max |-> 1000],
     [range |-> "1.25-1.75 (Very Good)", min |-> 1250, max |-> 1750],
     [range |-> "2.0-2.5 (Good)", min |-> 2000, max |-> 2500],
     [range |-> "2.75-3.0 (Satisfactory)", min |-> 2750, max |-> 3000],
     [range |-> "3.0+ (Failed)", min |-> 3000, max |-> 5000] >>

\* db.query(Grade).filter(Grade.grade >= min, Grade.grade <= max).count()
range_count(grs, rng) ==
  Cardinality({g \in grs : g.grade >= rng.min /\ g.grade <= rng.max})

grade_distribution(grs) ==
  [i \in 1..Len(grade_ranges) |->
     [range |-> grade_ranges[i].range, count |-> range_count(grs, grade_ranges[i])]]

RECURSIVE SumGwa(_)
SumGwa(S) ==
  IF S = {} THEN 0
  ELSE LET s == CHOOSE x \in S : TRUE IN s.gwa + SumGwa(S \ {s})

\* avg_gwa = func.avg(Student.gwa) over gwa > 0, gwa being a FLOAT column as
\* grade is; round(float(avg_gwa), 2) or 0.0
overall_avg_gwa(studs) ==
  LET graded == {s \in studs : s.gwa > 0}
      RECURSIVE SumErr(_)
      SumErr(S) == IF S = {} THEN 0
                   ELSE LET s == CHOOSE x \in S : TRUE
                        IN  Float32Err(s.gwa) + SumErr(S \ {s})
  IN  gwa_value([sum |-> SumGwa(graded), n |-> Cardinality(graded),
                 err |-> SumErr(graded)])

get_analytics_overview ==
  /\ resp' = Response("get_analytics_overview", <<>>, 200, "",
                      [total_students |-> Cardinality(students),
                       total_courses |-> Cardinality(courses),
                       total_grades |-> Cardinality(grades),
                       overall_avg_gwa |-> overall_avg_gwa(students),
                       grade_distribution |-> grade_distribution(grades)])
  /\ UNCHANGED <<courses, course_subjects, users, students, grades,
                 nextStudentId, nextGradeId, reqs>>

\* stored grade values within [1.0, 5.0], hundredths
AnalyticsValues == {1000, 1100, 1250, 2000, 2600, 3000, 5000}

\* the (student, subject) pairs a stored table may hold a row for
AnalyticsPairs ==
  << <<"24-001", "CS101", "Programming">>, <<"24-001", "MATH101", "Calculus">>,
     <<"24-002", "CS101", "Programming">> >>

\* the table holding a row for each pair with a value, ids in pair order
AnalyticsTable(f) ==
  {[id |-> i, student_code |-> AnalyticsPairs[i][1],
    subject_code |-> AnalyticsPairs[i][2],
    subject_name |-> AnalyticsPairs[i][3], grade |-> f[i]]
     : i \in {j \in 1..Len(AnalyticsPairs) : f[j] # 0}}

AnalyticsStudents ==
  {[id |-> 1, student_code |-> "24-001", name |-> "Ana", course_code |-> "BSIT", gwa |-> 0],
   [id |-> 2, student_code |-> "24-002", name |-> "Ben", course_code |-> "BSIT", gwa |-> 0]}

\* a store after startup, two add_student calls and add_grade calls for
\* some of the pairs
InitAnalytics ==
  \E f \in [1..Len(AnalyticsPairs) -> AnalyticsValues \cup {0}] :
    /\ courses = SeedCourses
    /\ course_subjects = seed_course_subjects({})
    /\ users = {default_admin}
    /\ grades = AnalyticsTable(f)
    /\ students = update_student_gwa(
                     update_student_gwa(AnalyticsStudents, 1,
                                        avg_grade(AnalyticsTable(f), "24-001")),
                     2, avg_grade(AnalyticsTable(f), "24-002"))
    /\ nextStudentId = Cardinality(AnalyticsStudents) + 1
    /\ nextGradeId = Len(AnalyticsPairs) + 1
    /\ resp = Response("none", <<>>, 0, "", <<>>)
    /\ reqs = [r \in Slots |-> Idle]

NextAnalytics == get_analytics_overview

SpecAnalytics == InitAnalytics /\ [][NextAnalytics]_vars

(* ---------------- properties ---------------- *)

\* gwa (thousandths) is a hundredth nearest to the mean of the student's
\* stored grades, and 0.0 when there are none
GwaMatches(s, grs) ==
  LET G == GradesOf(grs, s.student_code)
      n == Cardinality(G)
  IN  IF G = {} THEN s.gwa = 0
      ELSE s.gwa % 10 = 0 /\ 2 * Abs(s.gwa * n - SumGrades(G)) <= 10 * n

\* the 422 of the request validation, or the 400 of add_grade's range test
IsInvalidInput(r) ==
  \/ r.status = 422
  \/ r.status = 400 /\ r.detail = "Grade must be between 1.0 and 5.0"

\* the tables as the request that a step answers found them
Pre ==
  IF resp.op = "in_flight" THEN resp.before
  ELSE [courses |-> courses, users |-> users, students |-> students,
        grades |-> grades, nextStudentId |-> nextStudentId,
        nextGradeId |-> nextGradeId]

\* the response before the one a step gives, when both answer one request
Last == IF resp.op = "in_flight" THEN resp.last ELSE resp

\* no request is in flight
Quiet == resp.op # "in_flight"

IsNotFound(r) == r.status = 404 /\ r.detail = "Student not found"

IsConflict(r) == r.status = 400 /\ r.detail = "Student code already exists"

\* C1: after every completed mutating operation of the sequential backend,
\* every student's gwa is the mean of that student's stored grades rounded to
\* 2 decimal places, and 0.0 for a student without grades.
C1_GwaIsRoundedMean == Quiet => \A s \in students : GwaMatches(s, grades)

C1_Witness ==
  /\ resp.op = "add_grade" /\ resp.status = 200
  /\ \E s \in students :
       LET G == GradesOf(grades, s.student_code)
       IN  /\ s.student_code = resp.args.student_code
           /\ Cardinality(G) = 2
           /\ SumGrades(G) % 20 # 0

\* C2: after an accepted add_grade call exactly one row exists for
\* the (student_code, subject_code) pair and it stores the submitted value.
C2_StoresSubmittedValue ==
  [][(resp'.op = "add_grade" /\ resp'.status = 200) =>
       LET rows == GradeRows(grades', resp'.args.student_code, resp'.args.subject_code)
       IN  /\ Cardinality(rows) = 1
           /\ \A g \in rows : g.grade = resp'.args.grade]_vars

\* C3: add_grade rejects every value below 1.0 or above 5.0 with InvalidInput
\* and changes no grade and no gwa; it accepts exactly 1.0 and exactly 5.0
\* for an existing student.
C3_RangeEnforced ==
  [][resp'.op = "add_grade" =>
       LET v == resp'.args.grade
       IN  /\ (v < 1000 \/ v > 5000) =>
                IsInvalidInput(resp') /\ grades' = Pre.grades /\ students' = Pre.students
           /\ (v \in {1000, 5000} /\ StudentsOf(Pre.students, resp'.args.student_code) # {}) =>
                /\ resp'.status = 200
                /\ \E g \in grades' :
                     /\ g.student_code = resp'.args.student_code
                     /\ g.subject_code = resp'.args.subject_code
                     /\ g.grade = v]_vars

\* C3 (amended): add_grade rejects every value below 1.0 or above 5.0 with
\* InvalidInput and changes no grade and no gwa; it accepts exactly 1.0 and
\* exactly 5.0 for an existing student when subject_code and subject_name
\* have the lengths GradeCreate allows (1 to 20 and 1 to 200 characters), and
\* rejects them with InvalidInput, changing nothing, when they do not.
C3_RangeEnforcedValidBody ==
  [][resp'.op = "add_grade" =>
       LET v == resp'.args.grade
           strings == /\ Field_str(resp'.args.subject_code, SubjectCodeMaxLength)
                      /\ Field_str(resp'.args.subject_name, SubjectNameMaxLength)
       IN  /\ (v < 1000 \/ v > 5000 \/ ~strings) =>
                IsInvalidInput(resp') /\ grades' = Pre.grades /\ students' = Pre.students
           /\ (/\ v \in {1000, 5000}
               /\ strings
               /\ StudentsOf(Pre.students, resp'.args.student_code) # {}) =>
                /\ resp'.status = 200
                /\ \E g \in grades' :
                     /\ g.student_code = resp'.args.student_code
                     /\ g.subject_code = resp'.args.subject_code
                     /\ g.grade = v]_vars

\* a value above the range was refused for a student who has a grade, and the
\* boundary value 5.0 is stored
C3_Witness ==
  /\ resp.op = "add_grade" /\ resp.args.grade = 5001 /\ IsInvalidInput(resp)
  /\ \E g \in GradesOf(grades, resp.args.student_code) : g.grade = 5000

\* C4: add_grade with an in-range value for a student_code that names no
\* student is rejected with NotFound and changes no Grade row and no gwa.
C4_UnknownStudentNotFound ==
  [][(/\ resp'.op = "add_grade"
      /\ resp'.args.grade >= 1000 /\ resp'.args.grade <= 5000
      /\ StudentsOf(Pre.students, resp'.args.student_code) = {}) =>
       IsNotFound(resp') /\ grades' = Pre.grades /\ students' = Pre.students]_vars

\* C4 (amended): add_grade with an in-range value and a subject_code and
\* subject_name of the lengths GradeCreate allows, for a student_code that
\* names no student, is rejected with NotFound, and with InvalidInput when
\* the strings have other lengths; in both cases it changes no Grade row and
\* no gwa.
C4_UnknownStudentNotFoundValidBody ==
  [][(/\ resp'.op = "add_grade"
      /\ resp'.args.grade >= 1000 /\ resp'.args.grade <= 5000
      /\ StudentsOf(Pre.students, resp'.args.student_code) = {}) =>
       /\ IF /\ Field_str(resp'.args.subject_code, SubjectCodeMaxLength)
             /\ Field_str(resp'.args.subject_name, SubjectNameMaxLength)
          THEN IsNotFound(resp') ELSE IsInvalidInput(resp')
       /\ grades' = Pre.grades /\ students' = Pre.students]_vars

C4_Witness ==
  /\ resp.op = "add_grade" /\ IsNotFound(resp)
  /\ resp.args.grade \in {1000, 5000}
  /\ grades # {}

\* C5: while an add_grade request for a student is in progress, no committed
\* state shows the student's grade rows ahead of the student's gwa.
C5_NoStaleGwaVisible ==
  \A r \in Slots :
    (reqs[r].op = "add_grade" /\ ~Free(r)) =>
      \A s \in StudentsOf(students, reqs[r].args.student_code) : GwaMatches(s, grades)

\* C6: once two concurrent add_grade requests on the same student have both
\* returned successfully, the student's gwa is the rounded mean of the
\* student's grade rows.
C6_ConcurrentGwaCorrect ==
  (/\ \A r \in Slots : reqs[r].op = "add_grade" /\ reqs[r].pc = "done" /\ reqs[r].status = 200
   /\ \A r, q \in Slots : reqs[r].args.student_code = reqs[q].args.student_code) =>
    \A r \in Slots :
      \A s \in StudentsOf(students, reqs[r].args.student_code) : GwaMatches(s, grades)

NoOrphanGrades(studs, grs) == \A g \in grs : StudentsOf(studs, g.student_code) # {}

\* C7: sequential operations leave no Grade row whose student_code names no
\* student; a successful delete_student leaves no Grade row of that student;
\* get_student_grades for a missing student returns NotFound and no rows.
C7_NoOrphanedGrades ==
  [][/\ NoOrphanGrades(students', grades')
     /\ (resp'.op = "delete_student" /\ resp'.status = 200) =>
          /\ GradesOf(grades', resp'.args.student_code) = {}
          /\ StudentsOf(students', resp'.args.student_code) = {}
     /\ (resp'.op = "get_student_grades" /\
         StudentsOf(Pre.students, resp'.args.student_code) = {}) =>
          IsNotFound(resp') /\ resp'.body = <<>>]_vars

\* the only student ever created had grades and has been deleted
C7_Witness ==
  /\ resp.op = "delete_student" /\ resp.status = 200
  /\ nextStudentId = 2 /\ nextGradeId > 1
  /\ students = {} /\ grades = {}

\* C8: delete_student is atomic in the committed state: a step that removes
\* a Grade row of a student removes the Student row and all the student's
\* Grade rows with it, a step that removes a Student row leaves none of the
\* student's Grade rows, and a delete_student that fails changes nothing.
C8_DeleteAtomic ==
  [][\A c \in StudentCodes :
       /\ ({g.id : g \in GradesOf(grades, c)} \ {g.id : g \in grades'} # {}) =>
            StudentsOf(students', c) = {} /\ GradesOf(grades', c) = {}
       /\ (StudentsOf(students, c) # {} /\ StudentsOf(students', c) = {}) =>
            GradesOf(grades', c) = {}
       /\ \A r \in Slots :
            (reqs'[r].op = "delete_student" /\ reqs'[r].status # 200 /\ reqs'[r] # reqs[r]) =>
              students' = students /\ grades' = grades]_vars

\* C9: delete_student for a student_code that names no student is rejected
\* with NotFound and changes no student row and no Grade row.
C9_DeleteUnknownNotFound ==
  [][(resp'.op = "delete_student" /\
      StudentsOf(Pre.students, resp'.args.student_code) = {}) =>
       IsNotFound(resp') /\ students' = Pre.students /\ grades' = Pre.grades]_vars

C9_Witness ==
  /\ resp.op = "delete_student" /\ IsNotFound(resp)
  /\ students # {} /\ grades # {}

\* C10: add_student with a student_code that already exists is rejected with
\* Conflict whatever name and course_code come with it; the existing row, its
\* gwa and the grades are unchanged and no second row with the code appears.
C10_DuplicateCodeConflict ==
  [][(/\ resp'.op = "add_student"
      /\ StudentsOf(Pre.students, resp'.args.student_code) # {}) =>
       /\ IsConflict(resp')
       /\ students' = Pre.students /\ grades' = Pre.grades
       /\ Cardinality(StudentsOf(students', resp'.args.student_code)) = 1]_vars

\* C10 (amended): add_student with a student_code that already exists is
\* rejected: with Conflict whatever name and course_code of the lengths
\* StudentCreate allows (1 to 100 and 1 to 20 characters) come with it, with
\* InvalidInput otherwise; the existing row, its gwa and the grades are
\* unchanged and no second row with the code appears.
C10_DuplicateCodeConflictValidBody ==
  [][(/\ resp'.op = "add_student"
      /\ StudentsOf(Pre.students, resp'.args.student_code) # {}) =>
       /\ IF StudentCreate_valid(resp'.args.student_code, resp'.args.name,
                                 resp'.args.course_code)
          THEN IsConflict(resp') ELSE IsInvalidInput(resp')
       /\ students' = Pre.students /\ grades' = Pre.grades
       /\ Cardinality(StudentsOf(students', resp'.args.student_code)) = 1]_vars

\* the rejected request named a course outside the catalog and another name,
\* and the existing student already had a grade
C10_Witness ==
  /\ resp.op = "add_student" /\ IsConflict(resp)
  /\ resp.args.course_code \notin courses
  /\ \E s \in StudentsOf(students, resp.args.student_code) :
       s.name # resp.args.name /\ s.gwa # 0

\* C11: add_student with an unused student_code and a course_code that is not
\* in the catalog answers InvalidReference ("Course not found") and creates no
\* student row.
C11_UnknownCourseRejected ==
  [][(/\ resp'.op = "add_student"
      /\ StudentsOf(Pre.students, resp'.args.student_code) = {}
      /\ resp'.args.course_code \notin Pre.courses)
     => (/\ resp'.status = 400
         /\ resp'.detail = "Course not found"
         /\ students' = Pre.students
         /\ nextStudentId' = Pre.nextStudentId)]_vars

\* C11 (amended): add_student with an unused student_code and a course_code
\* that is not in the catalog creates no student row; it answers
\* InvalidReference ("Course not found") when student_code, name and
\* course_code have the lengths StudentCreate allows, and InvalidInput when
\* they do not (an empty course_code, one of more than 20 characters).
C11_UnknownCourseRejectedValidBody ==
  [][(/\ resp'.op = "add_student"
      /\ StudentsOf(Pre.students, resp'.args.student_code) = {}
      /\ resp'.args.course_code \notin Pre.courses)
     => (/\ IF StudentCreate_valid(resp'.args.student_code, resp'.args.name,
                                   resp'.args.course_code)
            THEN resp'.status = 400 /\ resp'.detail = "Course not found"
            ELSE IsInvalidInput(resp')
         /\ students' = Pre.students
         /\ nextStudentId' = Pre.nextStudentId)]_vars

\* an add_student for an unused code was refused for its course, after the
\* catalog was seeded
C11_Witness ==
  /\ resp.op = "add_student"
  /\ resp.status = 400
  /\ resp.detail = "Course not found"
  /\ courses # {}
  /\ resp.args.course_code \notin courses
  /\ StudentsOf(students, resp.args.student_code) = {}

\* C12: update_student answers NotFound when the student does not exist and
\* InvalidReference when the student exists and the new course does not; in
\* both cases no student row changes.
C12_UpdateRejections ==
  [][(resp'.op = "update_student")
     => /\ StudentsOf(Pre.students, resp'.args.student_code) = {}
           => (IsNotFound(resp') /\ students' = Pre.students)
        /\ (/\ StudentsOf(Pre.students, resp'.args.student_code) # {}
            /\ resp'.args.course_code \notin Pre.courses)
           => (/\ resp'.status = 400
               /\ resp'.detail = "Course not found"
               /\ students' = Pre.students)]_vars

\* C12 (amended): update_student with a course_code of the length
\* StudentUpdate allows (1 to 20 characters) answers NotFound when the student
\* does not exist and InvalidReference when the student exists and the new
\* course does not; with another course_code it answers InvalidInput; in all
\* these cases no student row changes.
C12_UpdateRejectionsValidBody ==
  [][(resp'.op = "update_student")
     => /\ ~StudentUpdate_valid(resp'.args.course_code)
           => (IsInvalidInput(resp') /\ students' = Pre.students)
        /\ (/\ StudentUpdate_valid(resp'.args.course_code)
            /\ StudentsOf(Pre.students, resp'.args.student_code) = {})
           => (IsNotFound(resp') /\ students' = Pre.students)
        /\ (/\ StudentUpdate_valid(resp'.args.course_code)
            /\ StudentsOf(Pre.students, resp'.args.student_code) # {}
            /\ resp'.args.course_code \notin Pre.courses)
           => (/\ resp'.status = 400
               /\ resp'.detail = "Course not found"
               /\ students' = Pre.students)]_vars

\* an update_student of an existing student was refused for its course
C12_Witness ==
  /\ resp.op = "update_student"
  /\ resp.status = 400
  /\ resp.detail = "Course not found"
  /\ StudentsOf(students, resp.args.student_code) # {}
  /\ resp.args.course_code \notin courses

\* C13: a successful update_student changes the course reference of the
\* target student only: its gwa, name, student_code and id, every Grade row and
\* every other student stay as they were.
C13_UpdateFrame ==
  [][(resp'.op = "update_student" /\ resp'.status = 200)
     => /\ grades' = Pre.grades
        /\ {s \in students' : s.student_code # resp'.args.student_code}
             = {s \in Pre.students : s.student_code # resp'.args.student_code}
        /\ \A s \in StudentsOf(Pre.students, resp'.args.student_code) :
             [s EXCEPT !.course_code = resp'.args.course_code] \in students'
        /\ Cardinality(students') = Cardinality(Pre.students)]_vars

\* an update_student succeeded on a student with a grade and a gwa while
\* another student exists, and the course reference did change
C13_Witness ==
  /\ resp.op = "update_student"
  /\ resp.status = 200
  /\ \E s \in students :
       /\ s.student_code = resp.args.student_code
       /\ s.course_code = "BSCS"
       /\ s.gwa # 0
       /\ GradesOf(grades, s.student_code) # {}
  /\ \E s \in students : s.student_code # resp.args.student_code

\* the band table of the specification, by ranges
BandTable(v) ==
  IF v = 0 THEN "Not yet graded"
  ELSE IF v = 1000 THEN "Excellent"
  ELSE IF v > 1000 /\ v <= 1750 THEN "Very Good"
  ELSE IF v > 1750 /\ v <= 2500 THEN "Good"
  ELSE IF v > 2500 /\ v <= 3000 THEN "Satisfactory"
  ELSE "Failed"

\* C14: the backend get_grade_description returns the band of the table for
\* 0.0 and for every hundredth of [1.00, 5.00]: 0.0 Not yet graded, 1.0
\* Excellent, (1.0, 1.75] Very Good, (1.75, 2.5] Good, (2.5, 3.0] Satisfactory,
\* above 3.0 Failed; 1.75, 2.5 and 3.0 fall in the lower band and 1.76 falls in
\* another band than 1.75.
C14_BackendBands ==
  /\ resp.op = "get_grade_description"
       => resp.body.backend = BandTable(resp.args.grade)
  /\ get_grade_description(1750) = "Very Good"
  /\ get_grade_description(2500) = "Good"
  /\ get_grade_description(3000) = "Satisfactory"
  /\ get_grade_description(1760) # get_grade_description(1750)

\* the classifier was applied to the boundary 1.75
C14_Witness ==
  /\ resp.op = "get_grade_description"
  /\ resp.args.grade = 1750
  /\ resp.body.backend = "Very Good"

\* C15: for 0.0 and every hundredth of [1.00, 5.00] the backend
\* get_grade_description, GradeSystem.get_description,
\* EduCoreApp.get_grade_description and
\* StudentPortalWindow.get_grade_description return the same band.
C15_ClassifiersAgree ==
  resp.op = "get_grade_description"
    => /\ resp.body.GradeSystem = resp.body.backend
       /\ resp.body.EduCoreApp = resp.body.backend
       /\ resp.body.StudentPortalWindow = resp.body.backend

\* C16: get_student_grades for an existing student answers with exactly the
\* Grade rows of that student, each once and none of another student, ordered
\* by subject_code ascending, and with the empty sequence (not an error) when
\* the student has no grades.
C16_ListGradesOfStudent ==
  [][(/\ resp'.op = "get_student_grades"
      /\ StudentsOf(Pre.students, resp'.args.student_code) # {})
     => LET body == resp'.body
            own == GradesOf(Pre.grades, resp'.args.student_code)
        IN  /\ resp'.status = 200
            /\ Len(body) = Cardinality(own)
            /\ {body[i] : i \in 1..Len(body)} = {GradeBody(g) : g \in own}
            /\ \A i \in 1..Len(body) : \A j \in 1..Len(body) :
                 i < j => SubjectRank(body[i].subject_code)
                            < SubjectRank(body[j].subject_code)
            /\ own = {} => body = <<>>]_vars

\* a listing of two rows whose insertion order was the reverse of their
\* subject_code order
C16_Witness ==
  /\ resp.op = "get_student_grades"
  /\ resp.status = 200
  /\ Len(resp.body) = 2
  /\ resp.body[1].subject_code = "CS101"
  /\ resp.body[2].subject_code = "MATH101"
  /\ resp.body[1].id > resp.body[2].id

\* C19: update_student_gwa rounds half-up: whenever the exact mean of a
\* student's grades lies exactly halfway between two hundredths, the stored gwa
\* is the upper hundredth.
C19_TiesRoundHalfUp ==
  Quiet => \A s \in students :
    LET G == GradesOf(grades, s.student_code)
        n == Cardinality(G)
        sum == SumGrades(G)
    IN  (n > 0 /\ sum % n = 0 /\ (sum \div n) % GradeStep = GradeStep \div 2)
          => s.gwa = (sum \div n) + GradeStep \div 2

\* C20: add_grade is idempotent: a call that directly follows a call with the
\* same (student_code, subject_code, subject_name, value) changes no Grade row,
\* no stored value and no gwa, and answers as the first call did.
C20_AddGradeIdempotent ==
  [][(/\ Last.op = "add_grade"
      /\ resp'.op = "add_grade"
      /\ resp'.args = Last.args)
     => (/\ grades' = Pre.grades
         /\ students' = Pre.students
         /\ nextGradeId' = Pre.nextGradeId
         /\ resp'.status = Last.status
         /\ resp'.body = Last.body)]_vars

\* an accepted add_grade found the row of its pair and overwrote it (its id is
\* older than the last id handed out), in a student with two rows
C20_Witness ==
  /\ resp.op = "add_grade"
  /\ resp.status = 200
  /\ resp.body.id + 1 < nextGradeId
  /\ Cardinality(GradesOf(grades, resp.args.student_code)) = 2
  /\ \E g \in grades : g.id = resp.body.id /\ g.grade = validate_grade(resp.args.grade)

\* C17: under every interleaving of concurrent add_student requests with the
\* same student_code and of concurrent add_grade requests for the same
\* (student_code, subject_code) pair, the store never holds two Student rows
\* with one student_code nor two Grade rows with one pair.
C17_UniqueUnderConcurrency ==
  /\ \A s \in students : \A t \in students :
       s.student_code = t.student_code => s = t
  /\ \A g \in grades : \A h \in grades :
       (g.student_code = h.student_code /\ g.subject_code = h.subject_code) => g = h

\* the race is on: one add_grade found no row for its pair and is about
\* to INSERT while the row of a concurrent add_grade, whose gwa is not yet
\* written, is in the table
C17_Witness ==
  \E r \in Slots : \E q \in Slots :
    /\ r # q
    /\ reqs[r].op = "add_grade"
    /\ reqs[r].pc = "ag_write"
    /\ reqs[r].existing = 0
    /\ reqs[q].op = "add_grade"
    /\ reqs[q].pc \in {"ag_refresh", "ag_gwa"}
    /\ reqs[q].args.student_code = reqs[r].args.student_code
    /\ reqs[q].args.subject_code = reqs[r].args.subject_code
    /\ GradeRows(grades, reqs[r].args.student_code, reqs[r].args.subject_code) # {}

\* C18: in the Flask backend, when a storage error occurs while update_gwa
\* runs inside add_grade, after the grade row was written, add_grade answers
\* with an error and never with the success message.
C18_GwaFailureReported ==
  [][\A r \in Slots :
       (/\ reqs[r].op = "flask_add_grade"
        /\ reqs[r].pc \in {"flask_update_gwa_select", "flask_update_gwa_update"}
        /\ reqs'[r].pc = "done"
        /\ reqs'[r].args.fault = "update_gwa")
       => (reqs'[r].status # 200 /\ reqs'[r].detail # "Grade added successfully")]_vars

\* C21: in the Flask backend an accepted add_grade for a pair that already has
\* a Grade row overwrites the stored value and the stored subject_name of that
\* row with the submitted ones, and creates no new row.
C21_FlaskUpsertOverwritesBoth ==
  [][\A r \in Slots :
       (/\ Free(r)
        /\ reqs'[r].op = "flask_add_grade"
        /\ reqs'[r].pc = "flask_update_gwa_select"
        /\ GradeRows(grades, reqs'[r].args.student_code,
                     reqs'[r].args.subject_code) # {})
       => (/\ Cardinality(grades') = Cardinality(grades)
           /\ \A g \in GradeRows(grades', reqs'[r].args.student_code,
                                  reqs'[r].args.subject_code) :
                /\ g.grade = reqs'[r].args.grade
                /\ g.subject_name = reqs'[r].args.subject_name)]_vars

\* C22: in every state reached by add_student and update_student calls
\* (courses are never deleted) every student row references a course_code
\* that exists in the catalog.
C22_CourseReferenceExists ==
  \A s \in students : s.course_code \in courses

\* a student was moved to another course of the catalog, and a later request
\* naming a course outside the catalog was refused
C22_Witness ==
  /\ resp.op \in {"add_student", "update_student"}
  /\ resp.detail = "Course not found"
  /\ \E s \in students : s.course_code = "BSCS"
  /\ \E s \in students : s.course_code = "BSIT"

\* C23: update_student_gwa, called from add_grade, is the single writer of
\* gwa: a new student row starts with gwa 0.0, and the gwa of an existing
\* student changes only in an accepted add_grade for that student.
C23_SingleWriterOfGwa ==
  [][/\ \A s \in students : \A t \in students' :
          (s.id = t.id /\ s.gwa # t.gwa)
            => (/\ reqs[Client].op = "add_grade"
                /\ reqs[Client].pc = "ag_gwa"
                /\ reqs[Client].args.student_code = s.student_code)
     /\ (resp'.op = "add_grade" /\ resp'.status # 200)
          => students' = Pre.students
     /\ \A t \in students' :
          t.id \notin {s.id : s \in students} => t.gwa = 0]_vars

\* a delete_student succeeded while another student with a grade and a gwa
\* stays in the table
C23_Witness ==
  /\ resp.op = "delete_student"
  /\ resp.status = 200
  /\ \E s \in students : s.gwa # 0 /\ GradesOf(grades, s.student_code) # {}

\* C24: startup_event seeds the catalog once: run on a store that already
\* holds courses it adds no Course and no CourseSubject row, the
\* (course_code, subject_code) pairs stay unique, and no student or grade
\* changes.
C24_StartupSeedsOnce ==
  [][(resp'.op = "startup_event")
     => /\ courses # {} => (courses' = courses /\ course_subjects' = course_subjects)
        /\ \A a \in course_subjects' : \A b \in course_subjects' :
             (a.course_code = b.course_code /\ a.subject_code = b.subject_code)
               => a = b
        /\ students' = students
        /\ grades' = grades]_vars

\* startup_event ran again on a store holding the seeded catalog, a student
\* and a grade
C24_Witness ==
  /\ resp.op = "startup_event"
  /\ courses = SeedCourses
  /\ Cardinality(course_subjects) = Len(SeedCourseSubjects)
  /\ students # {}
  /\ grades # {}

\* C25: add_grade stores an accepted value exactly as submitted: for a
\* submitted value within [1.0, 5.0] that has more than two decimal places the
\* stored Grade value equals the submitted value, not a rounded one.
C25_StoredUnrounded ==
  [][(/\ resp'.op = "add_grade"
      /\ resp'.status = 200
      /\ resp'.args.grade % GradeStep # 0)
     => \E g \in grades' : g.id = resp'.body.id /\ g.grade = resp'.args.grade]_vars

\* C26: an accepted add_grade for student S and subject C changes only the
\* Grade row of (S, C) and the gwa of S: the grades of S for other subjects,
\* the name and course of S, and the row and the grades of every other
\* student stay as they were.
C26_AddGradeFrame ==
  [][(resp'.op = "add_grade" /\ resp'.status = 200)
     => LET S == resp'.args.student_code
            C == resp'.args.subject_code
        IN  /\ {g \in grades' : ~(g.student_code = S /\ g.subject_code = C)}
                 = {g \in Pre.grades : ~(g.student_code = S /\ g.subject_code = C)}
            /\ {s \in students' : s.student_code # S}
                 = {s \in Pre.students : s.student_code # S}
            /\ Cardinality(students') = Cardinality(Pre.students)
            /\ \A s \in StudentsOf(Pre.students, S) : \E t \in students' :
                 t = [s EXCEPT !.gwa = t.gwa]]_vars

\* an accepted add_grade overwrote the row of its pair while the student has
\* a row for another subject and another student exists
C26_Witness ==
  /\ resp.op = "add_grade"
  /\ resp.status = 200
  /\ resp.body.id + 1 < nextGradeId
  /\ \E g \in GradesOf(grades, resp.args.student_code) :
       g.subject_code # resp.args.subject_code
  /\ \E s \in students : s.student_code # resp.args.student_code

\* C27: in every state reached by sequential operations each student's gwa is
\* 0.0 or lies within [1.0, 5.0], and it is 0.0 exactly when the student has no
\* Grade rows.
C27_GwaSentinelOrInRange ==
  Quiet => \A s \in students :
    /\ s.gwa = 0 \/ (MinGrade <= s.gwa /\ s.gwa <= MaxGrade)
    /\ s.gwa = 0 <=> GradesOf(grades, s.student_code) = {}

\* one student holds the single grade 5.0 and the gwa 5.0 while another
\* student has no grade and the gwa 0.0
C27_Witness ==
  /\ \E s \in students :
       /\ s.gwa = MaxGrade
       /\ \E g \in GradesOf(grades, s.student_code) : g.grade = MaxGrade
  /\ \E s \in students : s.gwa = 0 /\ GradesOf(grades, s.student_code) = {}

\* C28: under every interleaving of an add_grade for student S with a
\* concurrent delete_student(S), add_grade passing its student check before
\* the delete commits and writing after, no committed state holds a Grade row
\* whose student_code names no existing student.
C28_NoOrphanUnderRace ==
  \A g \in grades : \E s \in students : s.student_code = g.student_code

\* an add_grade that passed its student check and found no row is about to
\* INSERT after a concurrent delete_student of the same student committed
C28_Witness ==
  \E r \in Slots : \E q \in Slots :
    /\ reqs[r].op = "add_grade"
    /\ reqs[r].pc = "ag_write"
    /\ reqs[r].existing = 0
    /\ reqs[q].op = "delete_student"
    /\ reqs[q].pc = "done"
    /\ reqs[q].status = 200
    /\ reqs[q].args.student_code = reqs[r].args.student_code
    /\ StudentsOf(students, reqs[r].args.student_code) = {}

\* C29: after startup_event ran on a store with no users, a login request
\* carrying the announced credentials (username admin, password admin123)
\* passes LoginRequest validation and returns success with role admin.
C29_DefaultAdminCanLogin ==
  [][(/\ resp'.op = "login"
      /\ default_admin \in Pre.users
      /\ resp'.args.username = default_admin.username
      /\ resp'.args.password = admin123)
     => (/\ resp'.status = 200
         /\ resp'.body.success
         /\ resp'.body.role = "admin")]_vars

\* C30: in get_analytics_overview the grade_distribution ranges partition the
\* stored grades: every Grade row is counted in exactly one range, so the
\* range counts sum to total_grades.
C30_RangesPartition ==
  resp.op = "get_analytics_overview"
    => LET dist == resp.body.grade_distribution
           RECURSIVE Total(_)
           Total(n) == IF n = 0 THEN 0 ELSE dist[n].count + Total(n - 1)
       IN  /\ Total(Len(dist)) = resp.body.total_grades
           /\ \A g \in grades :
                Cardinality({i \in 1..Len(grade_ranges) :
                               /\ g.grade >= grade_ranges[i].min
                               /\ g.grade <= grade_ranges[i].max}) = 1

====
